---------------------------- MODULE Spec2Model ----------------------------
(*
  Conversation-timeout tracking over a shared Redis store
  (redis-timeout-tracking-poc): the timeout index (pkg/phase1/timeout_manager.go),
  the lease-elected detector (pkg/phase1/leader.go, the phase-2 StreamProducer)
  and the consumer group with pending-message recovery (StreamConsumer).

  Granularity.  Every Redis command (or pipelined batch) is one atomic step of
  the store.  Code that runs between two store calls of one goroutine is a
  step of its own when it reads or writes memory shared with another
  goroutine of the same replica (the LeaderElection.isLeader field, which is
  accessed without synchronisation); otherwise it is folded into the store
  step that precedes it.  Time is a discrete clock; one clock unit stands for
  TimeoutIntervalMS milliseconds / one TTL second / one idle unit as scaled by
  the definitions below.
*)
EXTENDS Integers, Sequences, FiniteSets, TLC

----------------------------------------------------------------------------
(* Bounds of the model *)

\* last instant of the clock
MaxTime == 4
\* largest number of entries the stream is let to hold
MaxStream == 1
\* how far in the past the timestamp of a request may lie
MaxSkew == 1
\* last instant of the clock in the index scenario SpecStore
MaxStoreTime == 2

(* Program constants, scaled to clock units *)

\* config.TimeoutIntervalMS (N), one clock unit
TimeoutIntervalMS == 1
\* config.LeaderElectionTTL, in clock units
LeaderElectionTTL == 2
\* maxAge of the cleanup routine, in clock units
maxAge == 3
\* minIdleTime of processPendingMessages, in clock units
minIdleTime == 1
\* Count of XREADGROUP and XAUTOCLAIM
BatchCount == 10

\* replicas of the fleet (config.PodID of each)
Pods == {"p1", "p2"}
\* conversation ids seen by the ingress
Convs == {"c1"}
\* every conversation id of the model (c2 is used by the index scenarios only)
AllConvs == {"c1", "c2"}
\* the lexicographic order Redis uses between members of equal score
ConvOrder == <<"c1", "c2">>

NoLeader == "none"

\* the two goroutines StreamConsumer.Start starts in a replica
Loops == {"consume", "recover"}

----------------------------------------------------------------------------
VARIABLES
    now,        \* wall clock (time.Now().UnixMilli(), scaled)
    waiting,    \* sorted set waiting_conversations: member -> score
    states,     \* hash notification_states: field -> value (decimal string)
    leader,     \* string key timeout:leader, NoLeader when the key is absent
    leaderTtl,  \* remaining TTL of timeout:leader
    events,     \* stream timeout_events: sequence of entries (field maps)
    group,      \* consumer group of the stream: created? / last-delivered id
    svc,        \* per replica: "new" before Service.Start, then "running"
    isLeader,   \* per replica: LeaderElection.isLeader (the local hint)
    lpc,        \* per replica: position of the leaderElectionLoop goroutine
    dpc,        \* per replica: position of StreamProducer.timeoutDetectionLoop
    dloc,       \* per replica: locals of the phase-2 detection pass
    tpc,        \* per replica: position of LeaderElection.timeoutCheckLoop
    tloc,       \* per replica: locals of the phase-1 check pass
    cpc,        \* per replica and loop: position of consumeLoop / recovery
    cbatch,     \* per replica and loop: messages of the batch still to process
    kpc,        \* per replica: position of the phase-1 Service.cleanupRoutine
    kgot,       \* per replica: the GET result held by the cleanup routine
    spc,        \* per replica: pos, the position of LeaderElection.Stop(),
                \*   late, the loops that may still take the tick that was
                \*   due in their ticker when stopCh was closed, and held
                \*   (history): the key named the replica when Stop() was called
    hist        \* history of the run, read by the properties only:
                \*   last[c]  the last ingress operation on c
                \*   sunk[c]  the level of the last notification the sink
                \*            accepted for c since the last TrackAgentMessage
                \*   sent     the entries for which a sink call succeeded
                \*   noop[c]  the last ingress operation on c was a
                \*            ClearTimeout that found c in neither W nor S
                \*   back[c]  the last ingress operation on c was a
                \*            TrackAgentMessage that replaced a later timestamp
                \*   regroup  a createConsumerGroup call found the group with
                \*            entries pending
                \*   unpub    the conversations whose last publishTimeoutEvent
                \*            call since their TrackAgentMessage failed

vars == <<now, waiting, states, leader, leaderTtl, events, group, svc,
          isLeader, lpc, dpc, dloc, tpc, tloc, cpc, cbatch, kpc, kgot, spc,
          hist>>

consumer == <<cpc, cbatch>>
cleaner == <<kpc, kgot>>
stopper == <<spc>>

----------------------------------------------------------------------------
(* Helpers: maps with a growing/shrinking domain *)

Put(f, k, v) == [x \in (DOMAIN f) \cup {k} |-> IF x = k THEN v ELSE f[x]]
Del(f, k) == [x \in (DOMAIN f) \ {k} |-> f[x]]
Empty == [x \in {} |-> 0]

(* Decimal strings, as go-redis writes integers and strconv reads them.
   A string is a sequence of character codes: 0..9 are the digits, NonDigit
   stands for any other character. *)

NonDigit == 10

RECURSIVE Itoa(_)
Itoa(n) == IF n < 10 THEN <<n>> ELSE Itoa(n \div 10) \o <<n % 10>>

IsDecimal(s) ==
    /\ Len(s) > 0
    /\ \A i \in 1 .. Len(s) : s[i] < NonDigit

RECURSIVE AtoiVal(_)
AtoiVal(s) ==
    IF Len(s) = 0 THEN 0
    ELSE 10 * AtoiVal(SubSeq(s, 1, Len(s) - 1)) + s[Len(s)]

\* strconv.Atoi / strconv.ParseInt: [ok, val]
Atoi(s) ==
    IF IsDecimal(s) THEN [ok |-> TRUE, val |-> AtoiVal(s)]
    ELSE [ok |-> FALSE, val |-> 0]

----------------------------------------------------------------------------
(* The store: sorted set, hash, lease key *)

\* variant: ZADD ... NX, which leaves the score of a member already present
ZAddNX(w, c, t) == IF c \in DOMAIN w THEN w ELSE Put(w, c, t)
\* ZADD waiting_conversations score member (upsert)
ZAdd(w, c, t) == Put(w, c, t)
\* variant: the ZREM is dropped from the pipeline
ZRemNone(w, c) == w
\* ZREM waiting_conversations member
ZRem(w, c) == Del(w, c)
\* variant: the HDEL is dropped from the pipeline
HDelNone(s, c) == s
\* variant: the field is overwritten with an empty value instead of deleted
HDelBlank(s, c) == Put(s, c, <<>>)
\* HDEL notification_states field
HDel(s, c) == Del(s, c)
\* HSET notification_states field value (go-redis writes the int in decimal)
HSet(s, c, level) == Put(s, c, Itoa(level))
\* ZREMRANGEBYSCORE waiting_conversations min max (both ends inclusive)
ZRemRangeByScore(w, min, max) ==
    [c \in {m \in DOMAIN w : ~(min <= w[m] /\ w[m] <= max)} |-> w[c]]
\* ZCARD
ZCard(w) == Cardinality(DOMAIN w)
\* the integer replies of ZREM and HDEL: the number of members / fields
\* removed; a missing key or member is answered 0, not an error
ZRemReply(w, c) == [err |-> FALSE, n |-> IF c \in DOMAIN w THEN 1 ELSE 0]
HDelReply(s, c) == [err |-> FALSE, n |-> IF c \in DOMAIN s THEN 1 ELSE 0]
\* pipe.Exec: the first error among the replies of the batch
ExecErr(replies) == \E i \in 1 .. Len(replies) : replies[i].err

\* members of w with score in [0, max], as ZRANGEBYSCORE orders them:
\* by score ascending, members of equal score lexicographically
ConvIndex(c) == CHOOSE i \in 1 .. Len(ConvOrder) : ConvOrder[i] = c
Before(w, a, b) ==
    \/ w[a] < w[b]
    \/ w[a] = w[b] /\ ConvIndex(a) < ConvIndex(b)

RECURSIVE SortedMembers(_, _)
SortedMembers(w, cs) ==
    IF cs = {} THEN <<>>
    ELSE LET m == CHOOSE a \in cs : \A b \in cs \ {a} : Before(w, a, b)
         IN  <<[Member |-> m, Score |-> w[m]]>> \o SortedMembers(w, cs \ {m})

ZRangeByScoreWithScores(w, max) ==
    SortedMembers(w, {c \in DOMAIN w : w[c] >= 0 /\ w[c] <= max})

\* the level processTimeoutDetection / processConversationTimeout reads:
\* HGET, redis.Nil and an unparsable value both leave currentLevel = 0
CurrentLevel(s, c) ==
    IF c \in DOMAIN s /\ s[c] # <<>> /\ Atoi(s[c]).ok THEN Atoi(s[c]).val ELSE 0

\* TimeoutManager.GetNotificationState
GetNotificationState(c) ==
    IF c \in DOMAIN states THEN Atoi(states[c]).val ELSE 0

\* variant: the thresholds compared with >= instead of >
NewLevelAtLeast(waitTime, currentLevel) ==
    IF waitTime >= TimeoutIntervalMS * 3 /\ currentLevel < 3 THEN 3
    ELSE IF waitTime >= TimeoutIntervalMS * 2 /\ currentLevel < 2 THEN 2
    ELSE IF waitTime >= TimeoutIntervalMS /\ currentLevel < 1 THEN 1
    ELSE 0

\* variant: the ladder climbs one level per pass
NewLevelStepwise(waitTime, currentLevel) ==
    IF currentLevel < 3 /\ waitTime > TimeoutIntervalMS * (currentLevel + 1)
      THEN currentLevel + 1
      ELSE 0

\* the level that is newly due, 0 when the code returns without a notification
NewLevel(waitTime, currentLevel) ==
    IF waitTime > TimeoutIntervalMS * 3 /\ currentLevel < 3 THEN 3
    ELSE IF waitTime > TimeoutIntervalMS * 2 /\ currentLevel < 2 THEN 2
    ELSE IF waitTime > TimeoutIntervalMS /\ currentLevel < 1 THEN 1
    ELSE 0

\* variant: plain SET (no NX), which always answers OK
SetOk == TRUE
\* SET timeout:leader pod NX EX ttl: TRUE when the key was absent
SetNXOk == leader = NoLeader

\* a renew script that answers 1 whoever holds the key
RenewAny(p) == TRUE
\* the renew script: EXPIRE when GET == ARGV[1], else 0
RenewOk(p) == leader = p

\* XADD values of publishTimeoutEvent; integers are stored in decimal
\* (event_data, the JSON copy of the same fields, is read by no consumer)
EventValues(c, level, startTime, detectedAt) ==
    [conversation_id |-> c,
     level |-> Itoa(level),
     agent_message_time |-> Itoa(startTime),
     detected_at |-> Itoa(detectedAt),
     attempt |-> Itoa(1)]

----------------------------------------------------------------------------
(* Initial state: the store is empty (FLUSHDB), every replica is constructed
   (NewService) and not yet started. *)

NoPass == [now |-> 0, queue |-> <<>>, newLevel |-> 0, got |-> "none"]

Init ==
    /\ now = 0
    /\ waiting = Empty
    /\ states = Empty
    /\ leader = NoLeader
    /\ leaderTtl = 0
    /\ events = <<>>
    /\ group = [exists |-> FALSE, last |-> 0, pending |-> Empty]
    /\ svc = [p \in Pods |-> "new"]
    /\ isLeader = [p \in Pods |-> FALSE]
    /\ lpc = [p \in Pods |-> "idle"]
    /\ dpc = [p \in Pods |-> "idle"]
    /\ dloc = [p \in Pods |-> NoPass]
    /\ tpc = [p \in Pods |-> "idle"]
    /\ tloc = [p \in Pods |-> NoPass]
    /\ cpc = [p \in Pods |-> [k \in Loops |-> "idle"]]
    /\ cbatch = [p \in Pods |-> [k \in Loops |-> <<>>]]
    /\ kpc = [p \in Pods |-> "idle"]
    /\ kgot = [p \in Pods |-> "none"]
    /\ spc = [p \in Pods |-> [pos |-> "run", late |-> {}, held |-> FALSE]]
    /\ hist = [last |-> [c \in AllConvs |-> "none"],
               sunk |-> [c \in AllConvs |-> 0],
               sent |-> {},
               noop |-> [c \in AllConvs |-> FALSE],
               back |-> [c \in AllConvs |-> FALSE],
               regroup |-> FALSE,
               unpub |-> {}]

----------------------------------------------------------------------------
(* The clock.  One unit passes: the TTL of timeout:leader runs down and the
   key expires at 0. *)

\* variant: the key is written without a TTL and never expires
KeyExpiresNever(ttl) == FALSE
\* SET ... EX ttl: the key is gone once its remaining TTL has run out
KeyExpires(ttl) == ttl <= 1

Tick ==
    /\ now < MaxTime
    /\ now' = now + 1
    /\ IF leader # NoLeader /\ KeyExpires(leaderTtl)
         THEN leader' = NoLeader /\ leaderTtl' = 0
         ELSE leader' = leader /\ leaderTtl' = (IF leader = NoLeader THEN 0 ELSE leaderTtl - 1)
    /\ group' = [group EXCEPT !.pending =
                    [id \in DOMAIN group.pending |->
                        [group.pending[id] EXCEPT
                            !.idle = IF @ < minIdleTime THEN @ + 1 ELSE @]]]
    /\ UNCHANGED <<waiting, states, events, svc, isLeader, lpc, dpc,
                   dloc, tpc, tloc, consumer, hist, cleaner, stopper>>

----------------------------------------------------------------------------
(* Timeout index: the ingress operations (any replica, any time) *)

\* the timestamp of a request: time.Now() when the request carries none
Timestamps == {now}

\* TimeoutManager.TrackAgentMessage: pipeline { ZADD ; HDEL }, one batch
TrackAgentMessage(c, t) ==
    /\ waiting' = ZAdd(waiting, c, t)
    /\ states' = HDel(states, c)
    /\ hist' = [hist EXCEPT !.last[c] = "track", !.sunk[c] = 0,
                            !.noop[c] = FALSE,
                            !.back[c] = (c \in DOMAIN waiting /\ t < waiting[c]),
                            !.unpub = @ \ {c}]
    /\ UNCHANGED <<now, leader, leaderTtl, events, group, svc, isLeader, lpc,
                   dpc, dloc, tpc, tloc, consumer, cleaner, stopper>>

\* TimeoutManager.ClearTimeout: pipeline { ZREM ; HDEL }, one batch
ClearTimeout(c) ==
    /\ waiting' = ZRem(waiting, c)
    /\ states' = HDel(states, c)
    /\ hist' = [hist EXCEPT !.last[c] = "clear",
                            !.noop[c] = (c \notin DOMAIN waiting /\ c \notin DOMAIN states),
                            !.back[c] = FALSE]
    /\ UNCHANGED <<now, leader, leaderTtl, events, group, svc, isLeader, lpc,
                   dpc, dloc, tpc, tloc, consumer, cleaner, stopper>>

\* the error ClearTimeout returns: the error of pipe.Exec
ClearTimeoutErr(c) == ExecErr(<<ZRemReply(waiting, c), HDelReply(states, c)>>)

\* TimeoutManager.GetWaitingConversationsCount: ZCARD waiting_conversations
GetWaitingConversationsCount == ZCard(waiting)

----------------------------------------------------------------------------
(* Service.Start of the phase-2 service: StreamProducer.Start creates the
   consumer group, starts the lease loop and the phase-1 check loop
   (LeaderElection.Start) and the phase-2 detection loop. *)

\* the reply of XGROUP CREATE timeout_events <group> $ MKSTREAM
XGroupCreateReply == IF group.exists THEN "BUSYGROUP" ELSE "OK"

\* the error createConsumerGroup returns: any error reply but BUSYGROUP
createConsumerGroupErr == XGroupCreateReply \notin {"OK", "BUSYGROUP"}

\* variant: the group is created anew (its position set to $) on every call
createConsumerGroupAnew ==
    [exists |-> TRUE, last |-> Len(events), pending |-> Empty]
\* XGROUP CREATE timeout_events <group> $ MKSTREAM; BUSYGROUP is ignored
createConsumerGroup ==
    IF group.exists THEN group
    ELSE [exists |-> TRUE, last |-> Len(events), pending |-> Empty]

\* variant: the loops are started without the consumer group being created
StartServiceNoGroup(p) ==
    /\ svc[p] = "new"
    /\ svc' = [svc EXCEPT ![p] = "running"]
    /\ UNCHANGED <<now, waiting, states, leader, leaderTtl, events, group,
                   isLeader, lpc, dpc, dloc, tpc, tloc, hist, consumer, cleaner,
                   stopper>>

StartService(p) ==
    /\ svc[p] = "new"
    /\ svc' = [svc EXCEPT ![p] = "running"]
    /\ group' = createConsumerGroup
    /\ hist' = [hist EXCEPT !.regroup = @ \/ (group.exists /\ DOMAIN group.pending # {})]
    /\ UNCHANGED <<now, waiting, states, leader, leaderTtl, events, isLeader,
                   lpc, dpc, dloc, tpc, tloc, consumer, cleaner, stopper>>

----------------------------------------------------------------------------
(* The select of leaderElectionLoop and timeoutCheckLoop: case <-le.stopCh
   returns, case <-ticker.C runs an iteration.  Once stopCh is closed a loop
   takes at most the one tick its ticker held at that moment (select picks
   among the ready cases at random). *)

\* the loops of LeaderElection that select on stopCh
StopLoops == {"lease", "check"}

TickSelected(p, loop) == spc[p].pos = "run" \/ loop \in spc[p].late

AfterSelect(p, loop) == [spc EXCEPT ![p].late = @ \ {loop}]

----------------------------------------------------------------------------
(* LeaderElection.leaderElectionLoop: one tryBecomeLeader per ticker tick *)

\* SET timeout:leader PodID NX with TTL
ElectSetNX(p) ==
    /\ svc[p] = "running"
    /\ lpc[p] = "idle"
    /\ TickSelected(p, "lease")
    /\ spc' = AfterSelect(p, "lease")
    /\ IF SetNXOk
         THEN /\ leader' = p
              /\ leaderTtl' = LeaderElectionTTL
              /\ lpc' = [lpc EXCEPT ![p] = "ok"]
         ELSE /\ UNCHANGED <<leader, leaderTtl>>
              /\ lpc' = [lpc EXCEPT ![p] = "fail"]
    /\ UNCHANGED <<now, waiting, states, events, group, svc, isLeader, dpc,
                   dloc, tpc, tloc, hist, consumer, cleaner>>

\* result "OK": if !le.isLeader { le.isLeader = true }, then renew
ElectBecame(p) ==
    /\ lpc[p] = "ok"
    /\ isLeader' = [isLeader EXCEPT ![p] = TRUE]
    /\ lpc' = [lpc EXCEPT ![p] = "renew"]
    /\ UNCHANGED <<now, waiting, states, leader, leaderTtl, events, group, svc,
                   dpc, dloc, tpc, tloc, hist, consumer, cleaner, stopper>>

\* renewLeadership: the script EXPIREs the key when it still holds PodID
ElectRenew(p) ==
    /\ lpc[p] = "renew"
    /\ IF RenewOk(p)
         THEN /\ leaderTtl' = LeaderElectionTTL
              /\ lpc' = [lpc EXCEPT ![p] = "idle"]
         ELSE /\ leaderTtl' = leaderTtl
              /\ lpc' = [lpc EXCEPT ![p] = "lost"]
    /\ UNCHANGED <<now, waiting, states, leader, events, group, svc, isLeader,
                   dpc, dloc, tpc, tloc, hist, consumer, cleaner, stopper>>

\* SET NX failed: if le.isLeader, double-check with GET, else nothing
ElectFailed(p) ==
    /\ lpc[p] = "fail"
    /\ lpc' = [lpc EXCEPT ![p] = IF isLeader[p] THEN "get" ELSE "idle"]
    /\ UNCHANGED <<now, waiting, states, leader, leaderTtl, events, group, svc,
                   isLeader, dpc, dloc, tpc, tloc, hist, consumer, cleaner, stopper>>

\* GET timeout:leader: error (redis.Nil) or another pod means leadership lost
ElectGet(p) ==
    /\ lpc[p] = "get"
    /\ lpc' = [lpc EXCEPT ![p] = IF leader = p THEN "idle" ELSE "lost"]
    /\ UNCHANGED <<now, waiting, states, leader, leaderTtl, events, group, svc,
                   isLeader, dpc, dloc, tpc, tloc, hist, consumer, cleaner, stopper>>

\* le.isLeader = false (renewal returned 0, or the double-check failed)
ElectLost(p) ==
    /\ lpc[p] = "lost"
    /\ isLeader' = [isLeader EXCEPT ![p] = FALSE]
    /\ lpc' = [lpc EXCEPT ![p] = "idle"]
    /\ UNCHANGED <<now, waiting, states, leader, leaderTtl, events, group, svc,
                   dpc, dloc, tpc, tloc, hist, consumer, cleaner, stopper>>

----------------------------------------------------------------------------
(* LeaderElection.IsLeader, as called by the phase-2 detection loop:
   GET, then the comparison and the write of the hint, then the read of the
   field that is returned. *)

\* currentLeader, err := GET timeout:leader
IsLeaderGet ==
    IF leader = NoLeader THEN "err" ELSE leader

\* isActualLeader := currentLeader == le.config.PodID
IsActualLeader(p, currentLeader) == currentLeader = p

\* ticker.C of timeoutDetectionLoop: IsLeader() issues its GET
DetectTick(p) ==
    /\ svc[p] = "running"
    /\ dpc[p] = "idle"
    /\ dloc' = [dloc EXCEPT ![p].got = IsLeaderGet]
    /\ dpc' = [dpc EXCEPT ![p] = "ilcmp"]
    /\ UNCHANGED <<now, waiting, states, leader, leaderTtl, events, group, svc,
                   isLeader, lpc, tpc, tloc, hist, consumer, cleaner, stopper>>

\* err: isLeader = false, return false; else bring the hint to isActualLeader
DetectIsLeaderSync(p) ==
    /\ dpc[p] = "ilcmp"
    /\ IF dloc[p].got = "err"
         THEN /\ isLeader' = [isLeader EXCEPT ![p] = FALSE]
              /\ dpc' = [dpc EXCEPT ![p] = "idle"]
              /\ dloc' = [dloc EXCEPT ![p] = NoPass]
         ELSE /\ isLeader' = [isLeader EXCEPT ![p] = IsActualLeader(p, dloc[p].got)]
              /\ dpc' = [dpc EXCEPT ![p] = "ilret"]
              /\ dloc' = dloc
    /\ UNCHANGED <<now, waiting, states, leader, leaderTtl, events, group, svc,
                   lpc, tpc, tloc, hist, consumer, cleaner, stopper>>

\* return le.isLeader; a pass starts when it is true
DetectIsLeaderReturn(p) ==
    /\ dpc[p] = "ilret"
    /\ dpc' = [dpc EXCEPT ![p] = IF isLeader[p] THEN "scan" ELSE "idle"]
    /\ dloc' = [dloc EXCEPT ![p] = NoPass]
    /\ UNCHANGED <<now, waiting, states, leader, leaderTtl, events, group, svc,
                   isLeader, lpc, tpc, tloc, hist, consumer, cleaner, stopper>>

----------------------------------------------------------------------------
(* StreamProducer.detectAndPublishTimeouts / processTimeoutDetection *)

\* position after the head of the queue is done: next conversation or idle
AfterConv(loc) == IF Len(loc.queue) > 1 THEN "hget" ELSE "idle"
Pop(loc) ==
    IF Len(loc.queue) > 1
      THEN [loc EXCEPT !.queue = Tail(loc.queue), !.newLevel = 0]
      ELSE NoPass

\* now := time.Now(); ZRANGEBYSCORE waiting_conversations 0 now WITHSCORES
DetectScan(p) ==
    /\ dpc[p] = "scan"
    /\ LET q == ZRangeByScoreWithScores(waiting, now)
       IN  IF q = <<>>
             THEN /\ dpc' = [dpc EXCEPT ![p] = "idle"]
                  /\ dloc' = [dloc EXCEPT ![p] = NoPass]
             ELSE /\ dpc' = [dpc EXCEPT ![p] = "hget"]
                  /\ dloc' = [dloc EXCEPT ![p] = [NoPass EXCEPT !.now = now, !.queue = q]]
    /\ UNCHANGED <<now, waiting, states, leader, leaderTtl, events, group, svc,
                   isLeader, lpc, tpc, tloc, hist, consumer, cleaner, stopper>>

\* HGET notification_states conv, then the level decision
DetectHGet(p) ==
    /\ dpc[p] = "hget"
    /\ LET conv == Head(dloc[p].queue)
           lvl == NewLevel(dloc[p].now - conv.Score, CurrentLevel(states, conv.Member))
       IN  IF lvl = 0
             THEN /\ dpc' = [dpc EXCEPT ![p] = AfterConv(dloc[p])]
                  /\ dloc' = [dloc EXCEPT ![p] = Pop(dloc[p])]
             ELSE /\ dpc' = [dpc EXCEPT ![p] = "xadd"]
                  /\ dloc' = [dloc EXCEPT ![p].newLevel = lvl]
    /\ UNCHANGED <<now, waiting, states, leader, leaderTtl, events, group, svc,
                   isLeader, lpc, tpc, tloc, hist, consumer, cleaner, stopper>>

\* publishTimeoutEvent: XADD timeout_events * ... with DetectedAt = time.Now()
publishTimeoutEvent(c, level, startTime) ==
    Append(events, EventValues(c, level, startTime, now))

DetectXAdd(p) ==
    /\ dpc[p] = "xadd"
    /\ Len(events) < MaxStream
    /\ LET conv == Head(dloc[p].queue)
       IN  /\ events' = publishTimeoutEvent(conv.Member, dloc[p].newLevel, conv.Score)
           /\ hist' = [hist EXCEPT !.unpub = @ \ {conv.Member}]
    /\ dpc' = [dpc EXCEPT ![p] = "hset"]
    /\ UNCHANGED <<now, waiting, states, leader, leaderTtl, group, svc,
                   isLeader, lpc, dloc, tpc, tloc, consumer, cleaner, stopper>>

\* publishTimeoutEvent returns an error (the XADD failed): the error is
\* logged, processTimeoutDetection returns before the HSET and the loop of
\* detectAndPublishTimeouts goes on with the next conversation
DetectXAddFail(p) ==
    /\ dpc[p] = "xadd"
    /\ hist' = [hist EXCEPT !.unpub = @ \cup {Head(dloc[p].queue).Member}]
    /\ dpc' = [dpc EXCEPT ![p] = AfterConv(dloc[p])]
    /\ dloc' = [dloc EXCEPT ![p] = Pop(dloc[p])]
    /\ UNCHANGED <<now, waiting, states, leader, leaderTtl, events, group, svc,
                   isLeader, lpc, tpc, tloc, consumer, cleaner, stopper>>

\* HSET notification_states conv newLevel
DetectHSet(p) ==
    /\ dpc[p] = "hset"
    /\ LET conv == Head(dloc[p].queue)
       IN  states' = HSet(states, conv.Member, dloc[p].newLevel)
    /\ dpc' = [dpc EXCEPT ![p] = AfterConv(dloc[p])]
    /\ dloc' = [dloc EXCEPT ![p] = Pop(dloc[p])]
    /\ UNCHANGED <<now, waiting, leader, leaderTtl, events, group, svc,
                   isLeader, lpc, tpc, tloc, hist, consumer, cleaner, stopper>>

----------------------------------------------------------------------------
(* LeaderElection.timeoutCheckLoop / checkTimeouts /
   processConversationTimeout: the phase-1 loop, which LeaderElection.Start
   starts in the phase-2 service as well.  It is gated by the hint alone. *)

\* ticker.C: if le.isLeader { checkTimeouts }
CheckTick(p) ==
    /\ svc[p] = "running"
    /\ tpc[p] = "idle"
    /\ TickSelected(p, "check")
    /\ spc' = AfterSelect(p, "check")
    /\ isLeader[p]
    /\ tpc' = [tpc EXCEPT ![p] = "scan"]
    /\ UNCHANGED <<now, waiting, states, leader, leaderTtl, events, group, svc,
                   isLeader, lpc, dpc, dloc, tloc, hist, consumer, cleaner>>

CheckScan(p) ==
    /\ tpc[p] = "scan"
    /\ LET q == ZRangeByScoreWithScores(waiting, now)
       IN  IF q = <<>>
             THEN /\ tpc' = [tpc EXCEPT ![p] = "idle"]
                  /\ tloc' = [tloc EXCEPT ![p] = NoPass]
             ELSE /\ tpc' = [tpc EXCEPT ![p] = "hget"]
                  /\ tloc' = [tloc EXCEPT ![p] = [NoPass EXCEPT !.now = now, !.queue = q]]
    /\ UNCHANGED <<now, waiting, states, leader, leaderTtl, events, group, svc,
                   isLeader, lpc, dpc, dloc, hist, consumer, cleaner, stopper>>

CheckHGet(p) ==
    /\ tpc[p] = "hget"
    /\ LET conv == Head(tloc[p].queue)
           lvl == NewLevel(tloc[p].now - conv.Score, CurrentLevel(states, conv.Member))
       IN  IF lvl = 0
             THEN /\ tpc' = [tpc EXCEPT ![p] = AfterConv(tloc[p])]
                  /\ tloc' = [tloc EXCEPT ![p] = Pop(tloc[p])]
             ELSE /\ tpc' = [tpc EXCEPT ![p] = "hset"]
                  /\ tloc' = [tloc EXCEPT ![p].newLevel = lvl]
    /\ UNCHANGED <<now, waiting, states, leader, leaderTtl, events, group, svc,
                   isLeader, lpc, dpc, dloc, hist, consumer, cleaner, stopper>>

\* le.sendNotification (logs, returns nil), then HSET
CheckHSet(p) ==
    /\ tpc[p] = "hset"
    /\ LET conv == Head(tloc[p].queue)
       IN  states' = HSet(states, conv.Member, tloc[p].newLevel)
    /\ tpc' = [tpc EXCEPT ![p] = AfterConv(tloc[p])]
    /\ tloc' = [tloc EXCEPT ![p] = Pop(tloc[p])]
    /\ UNCHANGED <<now, waiting, leader, leaderTtl, events, group, svc,
                   isLeader, lpc, dpc, dloc, hist, consumer, cleaner, stopper>>

----------------------------------------------------------------------------
(* StreamConsumer: consumeLoop and pendingMessagesRecovery of every replica,
   both ending in processMessage.  The notification sink is the injected
   capability behind sendNotification; it answers success or an error. *)

RequiredFields == {"conversation_id", "level", "agent_message_time", "detected_at"}

\* variant: the level string is not validated (an unparsable level reads 0)
parseTimeoutEventLax(values) ==
    IF /\ RequiredFields \subseteq DOMAIN values
       /\ Atoi(values.agent_message_time).ok
       /\ Atoi(values.detected_at).ok
      THEN [ok |-> TRUE,
            ConversationID |-> values.conversation_id,
            Level |-> Atoi(values.level).val,
            AgentMessageTime |-> Atoi(values.agent_message_time).val]
      ELSE [ok |-> FALSE, ConversationID |-> "", Level |-> 0, AgentMessageTime |-> 0]

\* StreamConsumer.parseTimeoutEvent: [ok, ConversationID, Level]
parseTimeoutEvent(values) ==
    IF /\ RequiredFields \subseteq DOMAIN values
       /\ Atoi(values.level).ok
       /\ Atoi(values.agent_message_time).ok
       /\ Atoi(values.detected_at).ok
       /\ ("attempt" \in DOMAIN values => Atoi(values.attempt).ok)
      THEN [ok |-> TRUE,
            ConversationID |-> values.conversation_id,
            Level |-> Atoi(values.level).val,
            AgentMessageTime |-> Atoi(values.agent_message_time).val]
      ELSE [ok |-> FALSE, ConversationID |-> "", Level |-> 0, AgentMessageTime |-> 0]

Min(a, b) == IF a < b THEN a ELSE b

RECURSIVE IdSeq(_, _)
\* the ids lo..hi in stream order
IdSeq(lo, hi) == IF lo > hi THEN <<>> ELSE <<lo>> \o IdSeq(lo + 1, hi)

RECURSIVE Filter(_, _)
\* the ids of seq that are in set, in order
Filter(seq, set) ==
    IF seq = <<>> THEN <<>>
    ELSE (IF Head(seq) \in set THEN <<Head(seq)>> ELSE <<>>) \o Filter(Tail(seq), set)

\* variant: the XACK is not issued
XAckNone(g, id) == g
\* XACK timeout_events <group> id
XAck(g, id) == [g EXCEPT !.pending = Del(g.pending, id)]

\* XREADGROUP GROUP g consumer COUNT 10 STREAMS timeout_events >
\* variant: the last-delivered id of the group is not advanced
XReadGroupStale(g, p, hi) ==
    [g EXCEPT
        !.pending = [id \in DOMAIN g.pending \cup (g.last + 1 .. hi) |->
                        IF id > g.last
                          THEN [consumer |-> p, idle |-> 0]
                          ELSE g.pending[id]]]
\* the group after XREADGROUP ... STREAMS timeout_events > delivered the
\* entries up to hi to consumer p: last-delivered id and pending list
XReadGroup(g, p, hi) ==
    [g EXCEPT
        !.last = hi,
        !.pending = [id \in DOMAIN g.pending \cup (g.last + 1 .. hi) |->
                        IF id > g.last
                          THEN [consumer |-> p, idle |-> 0]
                          ELSE g.pending[id]]]

ConsumeRead(p) ==
    /\ svc[p] = "running"
    /\ cpc[p]["consume"] = "idle"
    /\ group.exists
    /\ group.last < Len(events)
    /\ LET hi == Min(Len(events), group.last + BatchCount)
           ids == IdSeq(group.last + 1, hi)
       IN  /\ group' = XReadGroup(group, p, hi)
           /\ cbatch' = [cbatch EXCEPT ![p]["consume"] = ids]
    /\ cpc' = [cpc EXCEPT ![p]["consume"] = "proc"]
    /\ UNCHANGED <<now, waiting, states, leader, leaderTtl, events, svc,
                   isLeader, lpc, dpc, dloc, tpc, tloc, hist, cleaner, stopper>>

\* ticker of pendingMessagesRecovery: XPENDING summary, return when Count = 0
RecoverPending(p) ==
    /\ svc[p] = "running"
    /\ cpc[p]["recover"] = "idle"
    /\ group.exists
    /\ Cardinality(DOMAIN group.pending) # 0
    /\ cpc' = [cpc EXCEPT ![p]["recover"] = "claim"]
    /\ UNCHANGED <<now, waiting, states, leader, leaderTtl, events, group, svc,
                   isLeader, lpc, dpc, dloc, tpc, tloc, cbatch, hist, cleaner, stopper>>

\* variant: only the entries the caller owns already are claimed
ClaimableOwn(g, p) ==
    {id \in DOMAIN g.pending :
        g.pending[id].idle >= minIdleTime /\ g.pending[id].consumer = p}
\* the entries XAUTOCLAIM hands over: pending for any consumer of the group
\* and idle for min-idle at least
Claimable(g, p) ==
    {id \in DOMAIN g.pending : g.pending[id].idle >= minIdleTime}

\* XAUTOCLAIM timeout_events g consumer min-idle 0-0 COUNT 10
RecoverClaim(p) ==
    /\ cpc[p]["recover"] = "claim"
    /\ LET idle == Claimable(group, p)
           all == Filter(IdSeq(1, Len(events)), idle)
           ids == SubSeq(all, 1, Min(Len(all), BatchCount))
           set == {ids[i] : i \in 1 .. Len(ids)}
       IN  /\ group' = [group EXCEPT !.pending =
                          [id \in DOMAIN group.pending |->
                              IF id \in set THEN [consumer |-> p, idle |-> 0]
                              ELSE group.pending[id]]]
           /\ cbatch' = [cbatch EXCEPT ![p]["recover"] = ids]
           /\ cpc' = [cpc EXCEPT ![p]["recover"] = IF ids = <<>> THEN "idle" ELSE "proc"]
    /\ UNCHANGED <<now, waiting, states, leader, leaderTtl, events, svc,
                   isLeader, lpc, dpc, dloc, tpc, tloc, hist, cleaner, stopper>>

\* position after the head of the batch is done
AfterMessage(batch) == IF Len(batch) > 1 THEN "proc" ELSE "idle"

\* processMessage, parse error: XACK the entry without calling the sink
ProcessPoison(p, k) ==
    /\ cpc[p][k] = "proc"
    /\ LET id == Head(cbatch[p][k])
       IN  /\ ~parseTimeoutEvent(events[id]).ok
           /\ group' = XAck(group, id)
    /\ cpc' = [cpc EXCEPT ![p][k] = AfterMessage(cbatch[p][k])]
    /\ cbatch' = [cbatch EXCEPT ![p][k] = Tail(@)]
    /\ UNCHANGED <<now, waiting, states, leader, leaderTtl, events, svc,
                   isLeader, lpc, dpc, dloc, tpc, tloc, hist, cleaner, stopper>>

\* variant: the error of sendNotification is ignored
DeliveredAlways(ok) == TRUE
\* processMessage goes on to acknowledgeMessage only when sendNotification
\* returned no error
Delivered(ok) == ok

\* processMessage: sendNotification(event); on error the entry is left pending
ProcessSink(p, k, ok) ==
    /\ cpc[p][k] = "proc"
    /\ LET id == Head(cbatch[p][k])
           ev == parseTimeoutEvent(events[id])
       IN  /\ ev.ok
           /\ hist' = [hist EXCEPT
                          !.sunk[ev.ConversationID] = IF ok THEN ev.Level ELSE @,
                          !.sent = IF ok THEN @ \cup {id} ELSE @]
    /\ IF Delivered(ok)
         THEN /\ cpc' = [cpc EXCEPT ![p][k] = "ack"]
              /\ cbatch' = cbatch
         ELSE /\ cpc' = [cpc EXCEPT ![p][k] = AfterMessage(cbatch[p][k])]
              /\ cbatch' = [cbatch EXCEPT ![p][k] = Tail(@)]
    /\ UNCHANGED <<now, waiting, states, leader, leaderTtl, events, group, svc,
                   isLeader, lpc, dpc, dloc, tpc, tloc, cleaner, stopper>>

\* processMessage: acknowledgeMessage after the sink succeeded
ProcessAck(p, k) ==
    /\ cpc[p][k] = "ack"
    /\ group' = XAck(group, Head(cbatch[p][k]))
    /\ cpc' = [cpc EXCEPT ![p][k] = AfterMessage(cbatch[p][k])]
    /\ cbatch' = [cbatch EXCEPT ![p][k] = Tail(@)]
    /\ UNCHANGED <<now, waiting, states, leader, leaderTtl, events, svc,
                   isLeader, lpc, dpc, dloc, tpc, tloc, hist, cleaner, stopper>>

----------------------------------------------------------------------------
(* Specifications.  The tasks of a replica interact through the store and
   the isLeader field only, so each specification schedules the tasks its
   properties depend on; the tasks left out are replicas or goroutines that
   take no step in the behaviours considered. *)

\* handleAgentMessage and handleCustomerResponse of any replica
Ingress ==
    \E c \in Convs :
        \/ \E t \in Timestamps : TrackAgentMessage(c, t)
        \/ ClearTimeout(c)

LeaseLoop(p) ==
    \/ ElectSetNX(p)
    \/ ElectBecame(p)
    \/ ElectRenew(p)
    \/ ElectFailed(p)
    \/ ElectGet(p)
    \/ ElectLost(p)

DetectionLoop(p) ==
    \/ DetectTick(p)
    \/ DetectIsLeaderSync(p)
    \/ DetectIsLeaderReturn(p)
    \/ DetectScan(p)
    \/ DetectHGet(p)
    \/ DetectXAdd(p)
    \/ DetectHSet(p)

CheckLoop(p) ==
    \/ CheckTick(p)
    \/ CheckScan(p)
    \/ CheckHGet(p)
    \/ CheckHSet(p)

ConsumerLoops(p) ==
    \/ ConsumeRead(p)
    \/ RecoverPending(p)
    \/ RecoverClaim(p)
    \/ \E k \in Loops : ProcessPoison(p, k)
    \/ \E k \in Loops, ok \in BOOLEAN : ProcessSink(p, k, ok)
    \/ \E k \in Loops : ProcessAck(p, k)

(* Spec: the timeout index and the detector of a one-replica fleet: ingress,
   clock, lease loop, the phase-2 detection loop and the phase-1 check loop. *)
Next ==
    \/ Tick
    \/ Ingress
    \/ StartService("p1")
    \/ \E p \in Pods : LeaseLoop(p)
    \/ \E p \in Pods : DetectionLoop(p)
    \/ \E p \in Pods : CheckLoop(p)

Spec == Init /\ [][Next]_vars

(* SpecLease: the lease of a two-replica fleet: clock, the lease loops and
   the leadership checks of the detection loops; nothing is tracked. *)
NextLease ==
    \/ Tick
    \/ \E p \in Pods : StartService(p)
    \/ \E p \in Pods : LeaseLoop(p)
    \/ \E p \in Pods : DetectTick(p)
    \/ \E p \in Pods : DetectIsLeaderSync(p)
    \/ \E p \in Pods : DetectIsLeaderReturn(p)
    \/ \E p \in Pods : DetectScan(p)
    \/ \E p \in Pods : CheckTick(p)
    \/ \E p \in Pods : CheckScan(p)

SpecLease == Init /\ [][NextLease]_vars

(* Phase-1 Service: Start starts the lease loop, the check loop and the
   cleanup routine; the routine calls IsLeader() and, when it answers true,
   CleanupExpiredConversations. *)

StartPhase1(p) ==
    /\ svc[p] = "new"
    /\ svc' = [svc EXCEPT ![p] = "running"]
    /\ UNCHANGED <<now, waiting, states, leader, leaderTtl, events, group,
                   isLeader, lpc, dpc, dloc, tpc, tloc, hist, consumer, cleaner, stopper>>

\* ticker.C of cleanupRoutine: IsLeader() issues its GET
CleanupTick(p) ==
    /\ svc[p] = "running"
    /\ kpc[p] = "idle"
    /\ kgot' = [kgot EXCEPT ![p] = IsLeaderGet]
    /\ kpc' = [kpc EXCEPT ![p] = "ilcmp"]
    /\ UNCHANGED <<now, waiting, states, leader, leaderTtl, events, group, svc,
                   isLeader, lpc, dpc, dloc, tpc, tloc, hist, consumer, stopper>>

\* IsLeader(): err: isLeader = false, return false; else sync the hint
CleanupIsLeaderSync(p) ==
    /\ kpc[p] = "ilcmp"
    /\ IF kgot[p] = "err"
         THEN /\ isLeader' = [isLeader EXCEPT ![p] = FALSE]
              /\ kpc' = [kpc EXCEPT ![p] = "idle"]
         ELSE /\ isLeader' = [isLeader EXCEPT ![p] = IsActualLeader(p, kgot[p])]
              /\ kpc' = [kpc EXCEPT ![p] = "ilret"]
    /\ kgot' = [kgot EXCEPT ![p] = "none"]
    /\ UNCHANGED <<now, waiting, states, leader, leaderTtl, events, group, svc,
                   lpc, dpc, dloc, tpc, tloc, hist, consumer, stopper>>

\* IsLeader(): return le.isLeader
CleanupIsLeaderReturn(p) ==
    /\ kpc[p] = "ilret"
    /\ kpc' = [kpc EXCEPT ![p] = IF isLeader[p] THEN "zrem" ELSE "idle"]
    /\ UNCHANGED <<now, waiting, states, leader, leaderTtl, events, group, svc,
                   isLeader, lpc, dpc, dloc, tpc, tloc, hist, consumer, kgot, stopper>>

\* TimeoutManager.CleanupExpiredConversations: cutoff = now - maxAge,
\* ZREMRANGEBYSCORE waiting_conversations 0 cutoff
CleanupExpiredConversations(age) ==
    /\ waiting' = ZRemRangeByScore(waiting, 0, now - age)
    /\ hist' = [hist EXCEPT !.last =
                    [c \in AllConvs |-> IF c \in DOMAIN waiting /\ c \notin DOMAIN waiting'
                                       THEN "cleanup" ELSE hist.last[c]]]

\* a cleanup that also drops the notification state of what it removes
CleanupPurge(p) ==
    /\ kpc[p] = "zrem"
    /\ CleanupExpiredConversations(maxAge)
    /\ states' = [c \in DOMAIN states \ (DOMAIN waiting \ DOMAIN waiting')
                     |-> states[c]]
    /\ kpc' = [kpc EXCEPT ![p] = "idle"]
    /\ UNCHANGED <<now, leader, leaderTtl, events, group, svc,
                   isLeader, lpc, dpc, dloc, tpc, tloc, consumer, kgot, stopper>>

CleanupZRem(p) ==
    /\ kpc[p] = "zrem"
    /\ CleanupExpiredConversations(maxAge)
    /\ kpc' = [kpc EXCEPT ![p] = "idle"]
    /\ UNCHANGED <<now, states, leader, leaderTtl, events, group, svc,
                   isLeader, lpc, dpc, dloc, tpc, tloc, consumer, kgot, stopper>>

CleanupLoop(p) ==
    \/ CleanupTick(p)
    \/ CleanupIsLeaderSync(p)
    \/ CleanupIsLeaderReturn(p)
    \/ CleanupZRem(p)

(* SpecIndex: a one-replica phase-1 deployment: ingress, clock, lease loop,
   check loop and cleanup routine. *)
NextIndex ==
    \/ Tick
    \/ Ingress
    \/ StartPhase1("p1")
    \/ \E p \in Pods : LeaseLoop(p)
    \/ \E p \in Pods : CheckLoop(p)
    \/ \E p \in Pods : CleanupLoop(p)

SpecIndex == Init /\ [][NextIndex]_vars

(* SpecStore: the timeout index under the requests of two conversations.  A
   request carries its own timestamp (up to MaxSkew before now) or none
   (time.Now()).  One phase-1 replica runs its lease loop and check loop. *)
RequestTimestamps == {t \in 0 .. now : t >= now - MaxSkew}

AnyIngress ==
    \E c \in AllConvs :
        \/ \E t \in RequestTimestamps : TrackAgentMessage(c, t)
        \/ ClearTimeout(c)

StoreTick == now < MaxStoreTime /\ Tick

NextStore ==
    \/ StoreTick
    \/ AnyIngress
    \/ StartPhase1("p1")
    \/ \E p \in Pods : LeaseLoop(p)
    \/ \E p \in Pods : CheckLoop(p)

SpecStore == Init /\ [][NextStore]_vars

(* SpecLadder: a one-replica phase-2 deployment (one lease holder at most)
   in which every conversation is tracked once and never tracked again or
   cleared. *)
TrackOnce ==
    \E c \in Convs, t \in Timestamps :
        /\ hist.last[c] = "none"
        /\ TrackAgentMessage(c, t)

NextLadder ==
    \/ Tick
    \/ TrackOnce
    \/ StartService("p1")
    \/ \E p \in Pods : LeaseLoop(p)
    \/ \E p \in Pods : DetectionLoop(p)
    \/ \E p \in Pods : CheckLoop(p)

SpecLadder == Init /\ [][NextLadder]_vars

(* SpecPublish: a one-replica phase-2 deployment whose XADD may fail.  A
   conversation is tracked once and never cleared; the clock advances, and
   the lease loop and the detection loop of the replica keep running. *)
PublishLoop(p) ==
    \/ DetectionLoop(p)
    \/ DetectXAddFail(p)

NextPublish ==
    \/ Tick
    \/ TrackOnce
    \/ StartService("p1")
    \/ \E p \in Pods : LeaseLoop(p)
    \/ \E p \in Pods : PublishLoop(p)
    \/ \E p \in Pods : CheckLoop(p)

SpecPublish ==
    /\ Init
    /\ [][NextPublish]_vars
    /\ WF_vars(Tick)
    /\ WF_vars(StartService("p1"))
    /\ WF_vars(LeaseLoop("p1"))
    /\ WF_vars(PublishLoop("p1"))

(* Crash of a replica: the process is killed, it does not resign and none of
   its goroutines takes another step; its memory is gone. *)
Crash(p) ==
    /\ svc[p] = "running"
    /\ now + LeaderElectionTTL <= MaxTime
    /\ svc' = [svc EXCEPT ![p] = "crashed"]
    /\ isLeader' = [isLeader EXCEPT ![p] = FALSE]
    /\ lpc' = [lpc EXCEPT ![p] = "idle"]
    /\ dpc' = [dpc EXCEPT ![p] = "idle"]
    /\ dloc' = [dloc EXCEPT ![p] = NoPass]
    /\ tpc' = [tpc EXCEPT ![p] = "idle"]
    /\ tloc' = [tloc EXCEPT ![p] = NoPass]
    /\ kpc' = [kpc EXCEPT ![p] = "idle"]
    /\ kgot' = [kgot EXCEPT ![p] = "none"]
    /\ cpc' = [cpc EXCEPT ![p] = [k \in Loops |-> "idle"]]
    /\ cbatch' = [cbatch EXCEPT ![p] = [k \in Loops |-> <<>>]]
    /\ UNCHANGED <<now, waiting, states, leader, leaderTtl, events, group, hist, stopper>>

\* the leadership check of the detection loop, up to the start of a pass
----------------------------------------------------------------------------
(* LeaderElection.Stop, reached from Service.Stop (phase 1) and from
   StreamProducer.Stop (phase 2):
       close(le.stopCh); if le.isLeader { le.resignLeadership(...) }      *)

\* a resign script that deletes the key whoever holds it
ResignAny(p) == leader # NoLeader
\* the resign script: DEL when GET == ARGV[1], else 0
ResignOk(p) == leader = p

\* close(le.stopCh): the loops that select on it stop at their next select
StopClose(p) ==
    /\ svc[p] = "running"
    /\ spc[p].pos = "run"
    /\ spc' = [spc EXCEPT ![p] = [pos |-> "read", late |-> StopLoops,
                                  held |-> leader = p]]
    /\ UNCHANGED <<now, waiting, states, leader, leaderTtl, events, group, svc,
                   isLeader, lpc, dpc, dloc, tpc, tloc, hist, consumer, cleaner>>

\* if le.isLeader: the read of the hint decides whether the script is run
StopRead(p) ==
    /\ spc[p].pos = "read"
    /\ spc' = [spc EXCEPT ![p].pos = IF isLeader[p] THEN "resign" ELSE "done"]
    /\ UNCHANGED <<now, waiting, states, leader, leaderTtl, events, group, svc,
                   isLeader, lpc, dpc, dloc, tpc, tloc, hist, consumer, cleaner>>

\* resignLeadership: the script
StopResign(p) ==
    /\ spc[p].pos = "resign"
    /\ IF ResignOk(p)
         THEN leader' = NoLeader /\ leaderTtl' = 0
         ELSE UNCHANGED <<leader, leaderTtl>>
    /\ spc' = [spc EXCEPT ![p].pos = "clear"]
    /\ UNCHANGED <<now, waiting, states, events, group, svc, isLeader, lpc,
                   dpc, dloc, tpc, tloc, hist, consumer, cleaner>>

\* resignLeadership: le.isLeader = false; Stop() returns
StopClear(p) ==
    /\ spc[p].pos = "clear"
    /\ isLeader' = [isLeader EXCEPT ![p] = FALSE]
    /\ spc' = [spc EXCEPT ![p].pos = "done"]
    /\ UNCHANGED <<now, waiting, states, leader, leaderTtl, events, group, svc,
                   lpc, dpc, dloc, tpc, tloc, hist, consumer, cleaner>>

Stop(p) ==
    \/ StopClose(p)
    \/ StopRead(p)
    \/ StopResign(p)
    \/ StopClear(p)

LeaderCheck(p) ==
    \/ DetectTick(p)
    \/ DetectIsLeaderSync(p)
    \/ DetectIsLeaderReturn(p)
    \/ DetectScan(p)

(* SpecStop: the lease of a two-replica fleet in which p1 may be stopped.
   The lease loops of both replicas and the leadership checks of the
   detection loop of p1 run next to Stop(). *)
NextStop ==
    \/ Tick
    \/ \E p \in Pods : StartService(p)
    \/ \E p \in Pods : LeaseLoop(p)
    \/ LeaderCheck("p1")
    \/ Stop("p1")

SpecStop == Init /\ [][NextStop]_vars

----------------------------------------------------------------------------

(* SpecFailover: the lease of a two-replica fleet in which p1 may crash.  The
   clock advances, and the tickers of the surviving replica p2 keep firing. *)
NextFailover ==
    \/ Tick
    \/ \E p \in Pods : StartService(p)
    \/ \E p \in Pods : LeaseLoop(p)
    \/ \E p \in Pods : LeaderCheck(p)
    \/ Crash("p1")

SpecFailover ==
    /\ Init
    /\ [][NextFailover]_vars
    /\ WF_vars(Tick)
    /\ WF_vars(StartService("p2"))
    /\ WF_vars(LeaseLoop("p2"))
    /\ WF_vars(LeaderCheck("p2"))

(* SpecConsumer: the consumer group of a two-replica fleet.  The entries are
   appended by publishTimeoutEvent for a first-level timeout at any instant,
   and by a raw XADD of a malformed entry. *)
Publish(c, level, startTime) ==
    /\ group.exists
    /\ Len(events) < MaxStream
    /\ events' = publishTimeoutEvent(c, level, startTime)
    /\ UNCHANGED <<now, waiting, states, leader, leaderTtl, group, svc,
                   isLeader, lpc, dpc, dloc, tpc, tloc, consumer, hist, cleaner, stopper>>

\* entries a foreign producer can leave in the stream
Malformed ==
    {[level |-> Itoa(1), agent_message_time |-> Itoa(0), detected_at |-> Itoa(0)],
     [conversation_id |-> "c1", level |-> <<NonDigit>>,
      agent_message_time |-> Itoa(0), detected_at |-> Itoa(0)]}

RawXAdd(values) ==
    /\ group.exists
    /\ Len(events) < MaxStream
    /\ events' = Append(events, values)
    /\ UNCHANGED <<now, waiting, states, leader, leaderTtl, group, svc,
                   isLeader, lpc, dpc, dloc, tpc, tloc, consumer, hist, cleaner, stopper>>

NextConsumer ==
    \/ Tick
    \/ \E p \in Pods : StartService(p)
    \/ \E c \in Convs : Publish(c, 1, 0)
    \/ \E values \in Malformed : RawXAdd(values)
    \/ \E p \in Pods : ConsumerLoops(p)

SpecConsumer == Init /\ [][NextConsumer]_vars

\* the recovery goroutine of a replica: its ticker keeps firing and the
\* processMessage calls it makes return
RecoveryLoop(p) ==
    \/ RecoverPending(p)
    \/ RecoverClaim(p)
    \/ ProcessPoison(p, "recover")
    \/ \E ok \in BOOLEAN : ProcessSink(p, "recover", ok)
    \/ ProcessAck(p, "recover")

(* SpecSinkOk: the consumer group of a two-replica fleet whose sink succeeds
   on every call; the goroutines of the consumers keep running. *)
ConsumeWorkOk(p) ==
    \/ ConsumeRead(p)
    \/ ProcessPoison(p, "consume")
    \/ ProcessSink(p, "consume", TRUE)
    \/ ProcessAck(p, "consume")

RecoveryWorkOk(p) ==
    \/ RecoverPending(p)
    \/ RecoverClaim(p)
    \/ ProcessPoison(p, "recover")
    \/ ProcessSink(p, "recover", TRUE)
    \/ ProcessAck(p, "recover")

NextSinkOk ==
    \/ Tick
    \/ \E p \in Pods : StartService(p)
    \/ \E c \in Convs : Publish(c, 1, 0)
    \/ \E values \in Malformed : RawXAdd(values)
    \/ \E p \in Pods : ConsumeWorkOk(p)
    \/ \E p \in Pods : RecoveryWorkOk(p)

SpecSinkOk ==
    /\ Init
    /\ [][NextSinkOk]_vars
    /\ \A p \in Pods : WF_vars(ConsumeWorkOk(p))
    /\ \A p \in Pods : WF_vars(RecoveryWorkOk(p))

(* SpecRecovery: SpecConsumer with every replica eventually started and its
   recovery goroutine scheduled. *)
SpecRecovery ==
    /\ Init
    /\ [][NextConsumer]_vars
    /\ \A p \in Pods : WF_vars(StartService(p))
    /\ \A p \in Pods : WF_vars(RecoveryLoop(p))

(* SpecCrashRecovery: SpecConsumer in which the replica p1 may crash.  The
   clock advances, and the surviving replica p2 is started and its recovery
   goroutine keeps running. *)
NextCrashRecovery ==
    \/ Tick
    \/ \E p \in Pods : StartService(p)
    \/ \E c \in Convs : Publish(c, 1, 0)
    \/ \E values \in Malformed : RawXAdd(values)
    \/ \E p \in Pods : ConsumerLoops(p)
    \/ Crash("p1")

SpecCrashRecovery ==
    /\ Init
    /\ [][NextCrashRecovery]_vars
    /\ WF_vars(Tick)
    /\ WF_vars(StartService("p2"))
    /\ WF_vars(RecoveryLoop("p2"))

(* SpecPipeline: one replica end to end: ingress, clock, lease loop, phase-2
   detection loop, consumer and recovery loops. *)
NextPipeline ==
    \/ Tick
    \/ Ingress
    \/ StartService("p1")
    \/ \E p \in Pods : LeaseLoop(p)
    \/ \E p \in Pods : DetectionLoop(p)
    \/ \E p \in Pods : ConsumeRead(p)
    \/ \E p \in Pods : RecoverPending(p)
    \/ \E p \in Pods : RecoverClaim(p)
    \/ \E p \in Pods, k \in Loops, ok \in BOOLEAN : ProcessSink(p, k, ok)
    \/ \E p \in Pods, k \in Loops : ProcessAck(p, k)

SpecPipeline == Init /\ [][NextPipeline]_vars

----------------------------------------------------------------------------
(* Properties *)

\* the conversation, level and basis timestamp an entry written by
\* publishTimeoutEvent carries
EventConv(e) == e.conversation_id
EventLevel(e) == Atoi(e.level).val
EventBasis(e) == Atoi(e.agent_message_time).val
EventDetectedAt(e) == Atoi(e.detected_at).val

\* C1: every TrackAgentMessage(c, t) step ends with W[c] = t and S[c] absent,
\* whatever W and S held before the step.
C1_TrackSetsBasisAndClearsState ==
    [][\A c \in Convs, t \in 0 .. MaxTime :
          TrackAgentMessage(c, t) =>
              /\ c \in DOMAIN waiting'
              /\ waiting'[c] = t
              /\ c \notin DOMAIN states']_vars

\* C1, its case: c was tracked again, with a later timestamp, after an event
\* had been published for it; W[c] is the new timestamp and S[c] is absent.
C1_Witness ==
    \E c \in Convs :
        /\ hist.last[c] = "track"
        /\ c \in DOMAIN waiting
        /\ c \notin DOMAIN states
        /\ \E i \in 1 .. Len(events) :
              /\ EventConv(events[i]) = c
              /\ EventBasis(events[i]) < waiting[c]

\* C2: every ClearTimeout(c) step ends with c in neither W nor S.
C2_ClearRemovesBoth ==
    [][\A c \in Convs :
          ClearTimeout(c) => (c \notin DOMAIN waiting' /\ c \notin DOMAIN states')]_vars

\* C2, its case: c was cleared after the detector had escalated it to the last
\* level; c is in neither W nor S.
C2_Witness ==
    \E c \in Convs :
        /\ hist.last[c] = "clear"
        /\ c \notin DOMAIN waiting
        /\ c \notin DOMAIN states
        /\ \E i \in 1 .. Len(events) :
              EventConv(events[i]) = c /\ EventLevel(events[i]) = 3

\* C3: every entry of the stream carries a level in {1,2,3}, and its
\* publication instant (detected_at) exceeds its basis timestamp by more than
\* level * N.
C3_EventLevelAndWait ==
    \A i \in 1 .. Len(events) :
        /\ parseTimeoutEvent(events[i]).ok
        /\ EventLevel(events[i]) \in {1, 2, 3}
        /\ EventDetectedAt(events[i]) - EventBasis(events[i])
              > EventLevel(events[i]) * TimeoutIntervalMS

\* C3, its case: an event of level 3 is in the stream.
C3_Witness ==
    \E i \in 1 .. Len(events) :
        /\ EventLevel(events[i]) = 3
        /\ EventDetectedAt(events[i]) - EventBasis(events[i]) > 3 * TimeoutIntervalMS

\* C4: every notification the sink accepts for a conversation has a level
\* above the level of the last one it accepted for that conversation since the
\* last TrackAgentMessage (redeliveries by the recovery loop included).
C4_SinkLevelsIncrease ==
    [][\A p \in Pods, k \in Loops :
          ProcessSink(p, k, TRUE) =>
              LET ev == parseTimeoutEvent(events[Head(cbatch[p][k])])
              IN  ev.Level > hist.sunk[ev.ConversationID]]_vars

\* C5: an entry that parses and has been acknowledged (delivered to the group
\* and no longer pending) is one for which a sendNotification call succeeded.
C5_AckOnlyAfterSinkSuccess ==
    \A id \in 1 .. group.last :
        (parseTimeoutEvent(events[id]).ok /\ id \notin DOMAIN group.pending)
            => id \in hist.sent

\* C5, its case: a parseable entry has been delivered to the group, accepted
\* by the sink and acknowledged.
C5_Witness ==
    \E id \in 1 .. group.last :
        /\ parseTimeoutEvent(events[id]).ok
        /\ id \notin DOMAIN group.pending
        /\ id \in hist.sent

\* C6 (as a property of finite runs): when the ladder of a waiting
\* conversation is complete (S[c] = 3) and no phase-2 pass is in flight, an
\* event for c has been appended to the stream.  Detectors publish only levels
\* above S[c], so from a state that fails this no event for c is ever appended
\* while c stays in W.
C6_CompleteLadderHasEvent ==
    \A c \in Convs :
        (/\ c \in DOMAIN waiting
         /\ CurrentLevel(states, c) = 3
         /\ \A p \in Pods : dpc[p] \in {"idle", "ilcmp", "ilret", "scan"})
            => \E i \in 1 .. Len(events) : EventConv(events[i]) = c

\* C7: while ClearTimeout(c) is the last ingress operation on c, no step
\* appends an event for c and S[c] is absent.
C7_NoEventNoStateAfterClear ==
    [][\A c \in Convs :
          (hist.last[c] = "clear" /\ hist'.last[c] = "clear") =>
              /\ c \notin DOMAIN states'
              /\ \A i \in Len(events) + 1 .. Len(events') :
                    EventConv(events'[i]) # c]_vars

\* C8: while ClearTimeout(c) is the last ingress operation on c, no
\* sendNotification call is made for an event of c.
C8_NoSinkCallAfterClear ==
    [][\A p \in Pods, k \in Loops, ok \in BOOLEAN :
          ProcessSink(p, k, ok) =>
              hist.last[parseTimeoutEvent(events[Head(cbatch[p][k])]).ConversationID]
                  # "clear"]_vars

\* C9: while TrackAgentMessage(c, t') is the last ingress operation on c, an
\* event appended for c carries the basis t' = W[c], and S[c] is present only
\* when an event for c with basis t' is in the stream.
C9_RetrackResetsLadder ==
    [][\A c \in Convs :
          (hist'.last[c] = "track" /\ c \in DOMAIN waiting') =>
              /\ \A i \in Len(events) + 1 .. Len(events') :
                    EventConv(events'[i]) = c => EventBasis(events'[i]) = waiting'[c]
              /\ c \in DOMAIN states' =>
                    \E i \in 1 .. Len(events') :
                        /\ EventConv(events'[i]) = c
                        /\ EventBasis(events'[i]) = waiting'[c]]_vars

C11_HolderTickRenews ==
    [][\A p \in Pods :
          (ElectGet(p) /\ leader = p) => leaderTtl' = LeaderElectionTTL]_vars

C13_StateSubsetOfWaiting ==
    \A c \in DOMAIN states : hist.last[c] # "clear" => c \in DOMAIN waiting

\* C14: no step lowers a stored level: when S[c] is present before and after
\* a step (so the step is no TrackAgentMessage, ClearTimeout or cleanup of c),
\* its level after the step is at least its level before.
C14_StoredLevelMonotone ==
    [][\A c \in Convs :
          (c \in DOMAIN states /\ c \in DOMAIN states') =>
              CurrentLevel(states', c) >= CurrentLevel(states, c)]_vars

\* C15: the level decision of a phase-2 pass compares strictly: with wait
\* equal to k * N the pass never picks level k; with cur = 0 and wait = N it
\* goes on without publishing, and with cur = 0 and wait = N + 1 unit it goes
\* to publish a level-1 event.
C15_StrictThreshold ==
    [][\A p \in Pods :
          DetectHGet(p) =>
              LET conv == Head(dloc[p].queue)
                  wait == dloc[p].now - conv.Score
                  cur  == CurrentLevel(states, conv.Member)
              IN  /\ \A k \in 1 .. 3 :
                        (wait = k * TimeoutIntervalMS /\ dpc'[p] = "xadd")
                            => dloc'[p].newLevel # k
                  /\ (cur = 0 /\ wait = TimeoutIntervalMS) => dpc'[p] # "xadd"
                  /\ (cur = 0 /\ wait = TimeoutIntervalMS + 1) =>
                        (dpc'[p] = "xadd" /\ dloc'[p].newLevel = 1)]_vars

\* C15, its case: a pass that saw wait = N + 1 unit with no stored level is
\* about to publish a level-1 event.
C15_Witness ==
    \E p \in Pods :
        /\ dpc[p] = "xadd"
        /\ dloc[p].newLevel = 1
        /\ dloc[p].now - Head(dloc[p].queue).Score = TimeoutIntervalMS + 1
        /\ Head(dloc[p].queue).Member \notin DOMAIN states

C17_BasicLadder ==
    /\ [](\A i \in 1 .. Len(events), j \in 1 .. Len(events) :
            (i < j /\ EventConv(events[i]) = EventConv(events[j]))
                => EventLevel(events[i]) < EventLevel(events[j]))
    /\ [][\A i \in Len(events) + 1 .. Len(events') :
            CurrentLevel(states, EventConv(events'[i])) # 3]_vars

\* C18: a consumer that processes an entry with a missing or mal-typed
\* required field acknowledges it in that step without a sink call (the record
\* of sink calls is unchanged), no sink call ever succeeds for such an entry,
\* and once acknowledged it never becomes pending again.
C18_PoisonPill ==
    /\ [](\A id \in 1 .. Len(events) : events[id] \in Malformed => id \notin hist.sent)
    /\ [][\A p \in Pods, k \in Loops :
            (/\ cpc[p][k] = "proc"
             /\ events[Head(cbatch[p][k])] \in Malformed
             /\ <<cpc'[p][k], cbatch'[p][k]>> # <<cpc[p][k], cbatch[p][k]>>)
                => /\ Head(cbatch[p][k]) \notin DOMAIN group'.pending
                   /\ cpc'[p][k] # "ack"
                   /\ hist' = hist]_vars
    /\ [][\A id \in 1 .. group.last :
            (events[id] \in Malformed /\ id \notin DOMAIN group.pending)
                => id \notin DOMAIN group'.pending]_vars

\* C18, its case: a malformed entry was delivered and acknowledged, no sink
\* call was made, and nothing is pending.
C18_Witness ==
    /\ \E id \in 1 .. group.last : events[id] \in Malformed
    /\ DOMAIN group.pending = {}
    /\ hist.sent = {}
    /\ \A p \in Pods, k \in Loops : cpc[p][k] = "idle"

\* C19: a sendNotification call that returns an error leaves the group as it
\* is (the entry is not acknowledged, and the consumer does not go on to
\* acknowledge it); and a pending entry that has been idle for minIdleTime is
\* eventually claimed and processed by a recovery loop, unless it is
\* acknowledged first.
C19_FailedSinkStaysPendingAndIsRetried ==
    /\ [][\A p \in Pods, k \in Loops :
            ProcessSink(p, k, FALSE) => (group' = group /\ cpc'[p][k] # "ack")]_vars
    /\ \A id \in 1 .. MaxStream :
          (id \in DOMAIN group.pending /\ group.pending[id].idle >= minIdleTime)
              ~> \/ id \notin DOMAIN group.pending
                 \/ \E p \in Pods :
                       /\ cpc[p]["recover"] = "proc"
                       /\ Head(cbatch[p]["recover"]) = id

\* C19, its case: an entry that parses was read by a consume loop, which is
\* done with it without an acknowledgement (its sink call failed), and a
\* recovery loop has claimed it and is about to call the sink again.
C19_Witness ==
    \E id \in DOMAIN group.pending, p \in Pods :
        /\ parseTimeoutEvent(events[id]).ok
        /\ id \notin hist.sent
        /\ \A q \in Pods : cpc[q]["consume"] = "idle"
        /\ cpc[p]["recover"] = "proc"
        /\ Head(cbatch[p]["recover"]) = id

\* C20: when every sink call succeeds, every entry delivered to a consumer
\* (pending) is eventually acknowledged, and the pending set of the group is
\* eventually empty again.
C20_PendingDrains ==
    /\ \A id \in 1 .. MaxStream :
          (id \in DOMAIN group.pending) ~> (id \notin DOMAIN group.pending)
    /\ []<>(DOMAIN group.pending = {})

\* C20, its case: every entry of the stream was delivered, one that parses
\* was accepted by the sink, and nothing is pending.
C20_Witness ==
    /\ Len(events) > 0
    /\ group.last = Len(events)
    /\ DOMAIN group.pending = {}
    /\ \E id \in 1 .. Len(events) : id \in hist.sent
    /\ \A p \in Pods, k \in Loops : cpc[p][k] = "idle"

\* C21: an entry that is pending for a crashed consumer is eventually claimed
\* by the recovery loop of the surviving replica, which goes on to call the
\* sink for it (unless a sink call the survivor had under way for the entry
\* acknowledges it first); the survivor claims it only once it has been idle
\* for minIdleTime; when that sink call succeeds the loop goes on to acknowledge
\* the entry, and the acknowledgement removes it from the pending set.
C21_CrashedConsumerEntryRecovered ==
    /\ \A id \in 1 .. MaxStream :
          (/\ svc["p1"] = "crashed"
           /\ id \in DOMAIN group.pending
           /\ group.pending[id].consumer = "p1"
           /\ parseTimeoutEvent(events[id]).ok)
              ~> \/ /\ cpc["p2"]["recover"] = "proc"
                    /\ Head(cbatch["p2"]["recover"]) = id
                 \/ id \notin DOMAIN group.pending
    /\ [][ProcessSink("p2", "recover", TRUE) =>
            (/\ cpc'["p2"]["recover"] = "ack"
             /\ Head(cbatch'["p2"]["recover"]) = Head(cbatch["p2"]["recover"]))]_vars
    /\ [][ProcessAck("p2", "recover") =>
            Head(cbatch["p2"]["recover"]) \notin DOMAIN group'.pending]_vars
    /\ [][\A id \in DOMAIN group.pending :
            (/\ group.pending[id].consumer = "p1"
             /\ id \in DOMAIN group'.pending
             /\ group'.pending[id].consumer = "p2")
                => group.pending[id].idle >= minIdleTime]_vars

\* C21, its case: p1 has crashed, and the recovery loop of p2 has claimed an
\* entry, had it accepted by the sink and is about to acknowledge it.
C21_Witness ==
    \E id \in DOMAIN group.pending :
        /\ svc["p1"] = "crashed"
        /\ group.pending[id].consumer = "p2"
        /\ cpc["p2"]["recover"] = "ack"
        /\ Head(cbatch["p2"]["recover"]) = id
        /\ cpc["p2"]["consume"] = "idle"
        /\ id \in hist.sent

\* C22: a ClearTimeout(c) applied when c is in neither W nor S returns no
\* error and leaves W, S, the lease and the stream as they are; a second
\* ClearTimeout(c) after a first one is such a call.
C22_ClearIdleIsNoOp ==
    /\ [][\A c \in AllConvs :
            (ClearTimeout(c) /\ c \notin DOMAIN waiting /\ c \notin DOMAIN states) =>
                /\ ~ClearTimeoutErr(c)
                /\ waiting' = waiting
                /\ states' = states
                /\ leader' = leader
                /\ leaderTtl' = leaderTtl
                /\ events' = events]_vars
    /\ [][\A c \in AllConvs :
            ClearTimeout(c) => (c \notin DOMAIN waiting' /\ c \notin DOMAIN states')]_vars

\* C22, its case: the last request for a conversation was a ClearTimeout that
\* found it in neither W nor S, while the other conversation is waiting with
\* a stored level.
C22_Witness ==
    \E c \in AllConvs, d \in AllConvs :
        /\ hist.noop[c]
        /\ c \notin DOMAIN waiting
        /\ c \notin DOMAIN states
        /\ d \in DOMAIN waiting
        /\ d \in DOMAIN states

\* C23: a TrackAgentMessage(c, t') applied when c is in W already leaves one
\* entry for c, with W[c] = t' (also when t' is earlier than the score it
\* replaces), S[c] absent, and the entries of the other conversations as
\* they were.
C23_RetrackReplaces ==
    [][\A c \in AllConvs, t \in 0 .. MaxTime :
          (TrackAgentMessage(c, t) /\ c \in DOMAIN waiting) =>
              /\ DOMAIN waiting' = DOMAIN waiting
              /\ waiting'[c] = t
              /\ \A d \in DOMAIN waiting \ {c} : waiting'[d] = waiting[d]
              /\ c \notin DOMAIN states'
              /\ ZCard(waiting') = ZCard(waiting)]_vars

\* C23, its case: c was tracked while in W with a timestamp earlier than the
\* one it had; W[c] is the earlier timestamp and S[c] is absent.
C23_Witness ==
    \E c \in AllConvs :
        /\ hist.back[c]
        /\ c \in DOMAIN waiting
        /\ waiting[c] < now
        /\ c \notin DOMAIN states

\* C28: the count ZCARD returns is the number of conversations in W: tracking
\* a conversation that is not in W raises it by one, tracking one that is in W
\* leaves it, and clearing one that is in W lowers it by one.
C28_WaitingCount ==
    /\ [](GetWaitingConversationsCount
            = Cardinality({c \in AllConvs : c \in DOMAIN waiting}))
    /\ [][\A c \in AllConvs, t \in 0 .. MaxTime :
            TrackAgentMessage(c, t) =>
                ZCard(waiting') = ZCard(waiting) + (IF c \in DOMAIN waiting THEN 0 ELSE 1)]_vars
    /\ [][\A c \in AllConvs :
            ClearTimeout(c) =>
                ZCard(waiting') = ZCard(waiting) - (IF c \in DOMAIN waiting THEN 1 ELSE 0)]_vars

\* C28, its case: two distinct conversations were tracked and the count is 2.
C28_Witness ==
    /\ GetWaitingConversationsCount = 2
    /\ \A c \in AllConvs : hist.last[c] = "track"

\* C24: a createConsumerGroup call made when the group exists returns no
\* error and leaves the group (its last-delivered id and its pending entries)
\* as it is.
C24_GroupCreationIdempotent ==
    [][\A p \in Pods :
          (StartService(p) /\ group.exists) =>
              /\ ~createConsumerGroupErr
              /\ group'.exists
              /\ group'.last = group.last
              /\ group'.pending = group.pending]_vars

\* C24, its case: a replica was started, and called createConsumerGroup, when
\* the group had delivered an entry that was pending; the entry is pending
\* still.
C24_Witness ==
    /\ hist.regroup
    /\ \A p \in Pods : svc[p] = "running"
    /\ group.last > 0
    /\ DOMAIN group.pending # {}

\* C25: a replica starts a pass only when timeout:leader holds its id as the
\* tick fires: the ticker step of timeoutCheckLoop that goes on to
\* checkTimeouts is taken only by the replica the key names.
C25_PassOnlyByHolder ==
    [][\A p \in Pods : CheckTick(p) => leader = p]_vars

\* C26: IsLeader() answers true only when the GET it issued returned the
\* replica's own id: whatever the hint held, a call whose GET found the key
\* absent or naming another replica answers false.
C26_IsLeaderFollowsStore ==
    /\ [][\A p \in Pods :
            (DetectIsLeaderReturn(p) /\ dpc'[p] = "scan") => dloc[p].got = p]_vars
    /\ [][\A p \in Pods :
            (DetectIsLeaderSync(p) /\ dloc[p].got = "err") => dpc'[p] = "idle"]_vars

\* C27: the cleanup removes from W exactly the entries with a score below
\* now - maxAge: every entry with score < now - maxAge is gone after the step,
\* and every entry with score >= now - maxAge is in W with its score.
C27_CleanupStrictlyOlder ==
    [][\A p \in Pods :
          CleanupZRem(p) =>
              \A c \in DOMAIN waiting :
                  IF waiting[c] < now - maxAge
                    THEN c \notin DOMAIN waiting'
                    ELSE c \in DOMAIN waiting' /\ waiting'[c] = waiting[c]]_vars

\* C29: in no state are two detector tasks of one replica inside a pass (from
\* the scan of W to the last write of S): the phase-1 check loop and the
\* phase-2 detection loop of a replica are never both past their ticker.
InPass == {"scan", "hget", "xadd", "hset"}

C29_OnePassPerReplica ==
    \A p \in Pods : ~(tpc[p] \in InPass /\ dpc[p] \in InPass)

\* C30: in a phase-2 deployment, whenever S[c] holds a level k, an event for
\* c of level k is in the stream (the XADD of a level precedes its HSET).
C30_StoredLevelHasEvent ==
    \A c \in DOMAIN states :
        \E i \in 1 .. Len(events) :
            /\ EventConv(events[i]) = c
            /\ EventLevel(events[i]) = CurrentLevel(states, c)

\* C31: a failed publishTimeoutEvent leaves S and the stream as they are and
\* the pass goes on with the next conversation of its scan; and for a
\* conversation whose publish failed, a later pass comes to publish for it
\* again.
C31_FailedPublishIsRetried ==
    /\ [][\A p \in Pods :
            DetectXAddFail(p) =>
                /\ states' = states
                /\ events' = events
                /\ Len(dloc[p].queue) > 1 =>
                      (dpc'[p] = "hget" /\ dloc'[p].queue = Tail(dloc[p].queue))]_vars
    /\ \A c \in AllConvs :
          (c \in hist.unpub)
              ~> (\E p \in Pods : dpc[p] = "xadd" /\ Head(dloc[p].queue).Member = c)

\* C32: once S[c] holds a level k, no step appends an event for c of a level
\* at most k (a TrackAgentMessage removes S[c] and so lifts the guard).
C32_NoEventAtOrBelowStoredLevel ==
    [][\A i \in Len(events) + 1 .. Len(events') :
          EventLevel(events'[i]) > CurrentLevel(states, EventConv(events'[i]))]_vars

\* C33: the isLeader field of a replica changes only in steps of its lease
\* loop (tryBecomeLeader / renewLeadership); the steps of the other tasks
\* leave it as it is.
C33_HintWrittenByLeaseLoopOnly ==
    [][\A p \in Pods :
          isLeader'[p] # isLeader[p] => (ElectBecame(p) \/ ElectLost(p))]_vars

----------------------------------------------------------------------------
\* C34: no election attempt, renew or resign of a replica changes the value
\* or the TTL of the lease while the lease holds the id of another replica;
\* the holder of a held lease changes only through expiry or through the
\* resign of the holder itself.
C34_ForeignLeaseUntouched ==
    [][/\ \A p \in Pods :
            (/\ leader \notin {NoLeader, p}
             /\ (ElectSetNX(p) \/ ElectRenew(p) \/ StopResign(p)))
            => (leader' = leader /\ leaderTtl' = leaderTtl)
       /\ (leader # NoLeader /\ leader' # leader)
            => (Tick \/ StopResign(leader))]_vars

\* a replica has run its resign script while the other replica held the lease
C34_Witness ==
    /\ spc["p1"].pos = "clear"
    /\ leader = "p2"
    /\ leaderTtl = LeaderElectionTTL
    /\ lpc["p2"] = "ok"

\* C35: step-down.  An election tick of replica p that finds the lease held
\* by another replica (SET NX fails while the key names another replica, or
\* the renew script returns 0) does not finish before the hint of p is
\* false: a failed SET NX finishes at once only when the hint is false, a
\* double-check GET or a renewal that does not find p goes on to the
\* step-down, and the step-down clears the hint as the tick finishes.
C35_StepDown ==
    [][\A p \in Pods :
          /\ (ElectSetNX(p) /\ leader \notin {NoLeader, p}) => lpc'[p] = "fail"
          /\ (lpc[p] = "fail" /\ lpc'[p] = "idle") => ~isLeader'[p]
          /\ (lpc[p] = "fail" /\ lpc'[p] # "fail") => lpc'[p] \in {"idle", "get"}
          /\ (ElectGet(p) /\ leader # p) => lpc'[p] = "lost"
          /\ (ElectRenew(p) /\ leader # p) => lpc'[p] = "lost"
          /\ (lpc[p] = "lost" /\ lpc'[p] # "lost")
                => (lpc'[p] = "idle" /\ ~isLeader'[p])]_vars

\* the tick of p1, whose hint is set, has found the lease in the hands of p2
\* and is about to step down
C35_Witness ==
    /\ leader = "p2"
    /\ lpc["p1"] = "lost"
    /\ isLeader["p1"]

\* C36: resign on shutdown.  When Stop() of a replica whose id was stored in
\* the lease key returns, the key no longer names the replica and the hint of
\* the replica is false; no step of Stop() of a replica changes the key while
\* the key does not name that replica.
C36_StopResigns ==
    [][\A p \in Pods :
          /\ (spc[p].pos # "done" /\ spc'[p].pos = "done" /\ spc[p].held)
                => (leader' # p /\ ~isLeader'[p])
          /\ (Stop(p) /\ leader # p)
                => (leader' = leader /\ leaderTtl' = leaderTtl)]_vars

\* C37: CleanupExpiredConversations changes only the waiting set: the
\* notification states (those of the removed conversations included), the
\* lease key with its TTL and the event stream are the same after it.
C37_CleanupTouchesOnlyWaiting ==
    [][\A p \in Pods :
          CleanupZRem(p) =>
              /\ states' = states
              /\ leader' = leader
              /\ leaderTtl' = leaderTtl
              /\ events' = events]_vars

\* the cleanup has removed a conversation whose notification state is stored
C37_Witness ==
    \E c \in Convs :
        /\ hist.last[c] = "cleanup"
        /\ c \notin DOMAIN waiting
        /\ c \in DOMAIN states
        /\ leader # NoLeader

\* C38: the group read delivers each new entry to exactly one consumer:
\* ConsumeRead hands its caller the entries after the last-delivered id, none
\* of them delivered or pending before, and no entry is in the batch of two
\* consume loops.  Every pending entry has one owner, a consumer of the group.
\* An auto-claim leaves the set of pending entries as it is and makes its
\* caller the owner of exactly the entries it returns, in one step.
BatchIds(p, k) == {cbatch[p][k][i] : i \in 1 .. Len(cbatch[p][k])}

C38_OneOwnerPerEntry ==
    /\ [](\A id \in DOMAIN group.pending :
              group.pending[id].consumer \in Pods /\ id <= group.last)
    /\ [](\A id \in 1 .. Len(events) :
              Cardinality({p \in Pods : id \in BatchIds(p, "consume")}) <= 1)
    /\ [][\A p \in Pods :
            ConsumeRead(p) =>
                /\ group'.last > group.last
                /\ \A i \in 1 .. Len(cbatch'[p]["consume"]) :
                      LET id == cbatch'[p]["consume"][i]
                      IN  /\ id > group.last /\ id <= group'.last
                          /\ id \notin DOMAIN group.pending
                          /\ group'.pending[id].consumer = p
                /\ \A id \in DOMAIN group.pending :
                      group'.pending[id] = group.pending[id]]_vars
    /\ [][\A p \in Pods :
            RecoverClaim(p) =>
                /\ DOMAIN group'.pending = DOMAIN group.pending
                /\ \A id \in DOMAIN group.pending :
                      IF \E i \in 1 .. Len(cbatch'[p]["recover"]) :
                             cbatch'[p]["recover"][i] = id
                        THEN group'.pending[id].consumer = p
                        ELSE group'.pending[id] = group.pending[id]]_vars

\* C38, its case: p1 was handed an entry by the group read and still holds it
\* in its batch; the recovery loop of p2 has claimed it and owns it now.
C38_Witness ==
    \E id \in DOMAIN group.pending :
        /\ id \in BatchIds("p1", "consume")
        /\ id \in BatchIds("p2", "recover")
        /\ group.pending[id].consumer = "p2"

\* C39: no event is in the stream before the consumer group exists; the
\* group is created on an empty stream, so its start position $ lies before
\* every event; a detector appends its event behind the last-delivered id of
\* the group, and that id moves only when a group read hands the entries up
\* to it to a consumer.  So every event of a detector is handed to a consumer
\* by the group reads and none is skipped.
C39_GroupBeforeEvents ==
    /\ [](Len(events) > 0 => group.exists)
    /\ [](group.last <= Len(events))
    /\ [][(~group.exists /\ group'.exists)
            => (Len(events) = 0 /\ group'.last = 0)]_vars
    /\ [][\A p \in Pods :
            DetectXAdd(p) => (group.exists /\ Len(events') > group.last)]_vars
    /\ [][group'.last # group.last
            => \E p \in Pods :
                  /\ ConsumeRead(p)
                  /\ \A id \in group.last + 1 .. group'.last :
                        /\ id \in BatchIds(p, "consume")'
                        /\ group'.pending[id].consumer = p]_vars

\* C39, its case: an event a detector appended after the group was created
\* has been handed to a consumer by the group read.
C39_Witness ==
    \E id \in DOMAIN group.pending, p \in Pods :
        /\ parseTimeoutEvent(events[id]).ok
        /\ EventConv(events[id]) \in DOMAIN states
        /\ id \in BatchIds(p, "consume")
        /\ group.pending[id].consumer = p

\* C40: once Stop() has returned on a replica, no detector of that replica
\* starts a pass: neither its detection loop nor its check loop goes from
\* outside a pass to the scan of the waiting set.
C40_NoPassAfterStop ==
    [][\A p \in Pods :
          spc[p].pos = "done" =>
              /\ ~(dpc[p] \notin InPass /\ dpc'[p] \in InPass)
              /\ ~(tpc[p] \notin InPass /\ tpc'[p] \in InPass)]_vars

=============================================================================
